---- MODULE Spec2Model ----
(***************************************************************************)
(* Streaming chat client: the App event loop (App.Update), the chat view   *)
(* (Chat.Update, Chat.SetSending) and the stream producer                  *)
(* (OpenRouterClient.StreamGenerate) with its unbuffered event channel.    *)
(*                                                                         *)
(* Texts are sequences of tokens, so that concatenation, trimming and      *)
(* suffix tests are computed and not assumed.                              *)
(***************************************************************************)
EXTENDS Naturals, Sequences, FiniteSets, Bags, TLC

\* ------------------------------------------------------------------ bounds
\* SendPromptMsg commands the chat view may emit in one run
MaxSends == 2
\* lines of response bodies the scanners may read in one run
MaxLines == 2
\* failures of the network (httpClient.Do, the status, the body read) in
\* one run
MaxFaults == 1
\* failures to build a request (json.Marshal, http.NewRequest) in one run
MaxBuildFaults == 1
\* ModelSelectedMsg commands the model picker may emit in one run
MaxSelects == 1

\* --------------------------------------------------------------- constants
NIL == 0
Models == {"m1", "m2"}
\* the terminal sizes a tea.WindowSizeMsg may report
Sizes == {<<100, 30>>}
\* the content the k-th body line of a run may carry: each line its own, so
\* that order and repetition show in a concatenation
ChunkTexts(k) == {<<"c" \o ToString(k)>>}
\* what the textarea may hold when Enter is pressed for the k-th prompt of a
\* run: nothing, blanks, a prompt, a prompt within blanks
Inputs(k) ==
  LET prompt == "p" \o ToString(k)
  IN {<< >>, <<" ">>, <<prompt>>, <<" ", prompt, " ">>}

VARIABLES
  activeView,           \* App.activeView
  selectedModel,        \* App.selectedModel
  width,                \* App.width
  height,               \* App.height
  conversationHistory,  \* App.conversationHistory
  streamChan,           \* App.streamChan: NIL or the index of the channel
  sending,              \* Chat.sending
  historyBuf,           \* Chat.historyBuf
  assistantResponse,    \* Chat.assistantResponse
  msgs,                 \* results of commands, not yet handled by Update
  producers,            \* one record per StreamGenerate goroutine/channel
  listeners,            \* per channel: receives armed by listenToStream
  crashed,              \* the process died of a panic
  last,                 \* the message Update handled last, and what it did
  turn,                 \* the last accepted Send: Conversation before it, its prompt
  chunks,               \* Chunk events handled in the current turn
  handled,              \* the stream events handled in the current turn
  nSends,               \* SendPromptMsg commands emitted so far
  nSelects,             \* ModelSelectedMsg commands emitted so far
  nLines,               \* body lines read so far
  nFaults,              \* failures of the network so far
  nBuildFaults          \* failures to build a request so far

vars == <<activeView, selectedModel, width, height, conversationHistory,
          streamChan, sending, historyBuf, assistantResponse, msgs, producers,
          listeners, crashed, last, turn, chunks, handled, nSends, nSelects,
          nLines, nFaults, nBuildFaults>>

sizeVars == <<width, height>>
appVars == <<activeView, selectedModel, sizeVars, conversationHistory,
             streamChan>>
chatVars == <<sending, historyBuf, assistantResponse>>
ghostVars == <<last, turn, chunks, handled>>
keyVars == <<nSends, nSelects>>
envVars == <<nLines, nFaults, nBuildFaults>>
boundVars == <<nSends, nSelects, nLines, nFaults, nBuildFaults>>

\* ------------------------------------------------------------------- texts
RECURSIVE TrimLeft(_)
TrimLeft(s) == IF s # << >> /\ Head(s) = " " THEN TrimLeft(Tail(s)) ELSE s

RECURSIVE TrimRight(_)
TrimRight(s) ==
  IF s # << >> /\ s[Len(s)] = " " THEN TrimRight(SubSeq(s, 1, Len(s) - 1)) ELSE s

\* strings.TrimSpace
TrimSpace(s) == TrimRight(TrimLeft(s))

\* c.assistantStyle.Render("Assistant") + ": "
AssistantPrefix == <<"Assistant: ">>
\* c.userStyle.Render("You") + ": "
UserLabel == <<"You: ">>
NewLines == <<"\n\n">>

HasSuffix(s, suffix) ==
  /\ Len(s) >= Len(suffix)
  /\ SubSeq(s, Len(s) - Len(suffix) + 1, Len(s)) = suffix

TrimSuffix(s, suffix) ==
  IF HasSuffix(s, suffix) THEN SubSeq(s, 1, Len(s) - Len(suffix)) ELSE s

\* ---------------------------------------------------------------- messages
\* a tea.Msg; ch is the channel a listen command received it from (NIL for
\* a message that did not come from a channel)
Msg(t, x) == [type |-> t, text |-> x, ch |-> NIL]
NoMsg == Msg("none", << >>)

Message(role, content) == [Role |-> role, Content |-> content]

\* fmt.Errorf texts of StreamGenerate, by the branch that builds them
ErrMarshal == <<"failed to marshal stream request">>
ErrNewRequest == <<"failed to created stream HTTP request">>
ErrTransport == <<"stream HTTP request failed">>
ErrStatus == <<"API stream request failed with status", "body">>
ErrDecode == <<"error unmarshalling stream chunk">>
ErrApi(message) == <<"API error in stream chunk: ">> \o message
ErrRead == <<"error reading stream">>

\* ------------------------------------------------------------------- lines
\* the error field of a decoded payload: absent, or with its message
NoError == [present |-> FALSE, message |-> << >>]
ApiError(message) == [present |-> TRUE, message |-> message]

\* the error fields the k-th body line of a run may carry
ApiErrors(k) == {NoError, ApiError(<<"e" \o ToString(k)>>)}

\* One line of the response body as bufio.Scanner returns it.
Line(k, e, n, c, f) ==
  [kind |-> k, error |-> e, choices |-> n, content |-> c, finish |-> f]

PlainLines ==
  {Line(kind, NoError, 0, << >>, FALSE) :
     kind \in {"blank", "comment", "noprefix", "done", "malformed"}}

\* the finish_reason of the k-th body line of a run, if it has choices: the
\* code does no more with it than log it, so the first line of a run
\* carries one, where a line can follow it, and no other line does
FinishReasons(k) == IF k = 1 THEN {TRUE} ELSE {FALSE}

DataLines(k) ==
  {Line("data", e, 1, c, f) :
     e \in ApiErrors(k), c \in ChunkTexts(k) \cup {<< >>},
     f \in FinishReasons(k)}
  \cup {Line("data", e, 0, << >>, FALSE) : e \in ApiErrors(k)}

\* the lines the k-th body line of a run may be
Lines(k) == PlainLines \cup DataLines(k)

\* ---------------------------------------------------------------- chat view
\* Chat.SetSending: the new historyBuf
SetSendingBuf(buf, resp, s) ==
  IF s THEN buf \o AssistantPrefix
  ELSE IF HasSuffix(buf, AssistantPrefix) /\ Len(resp) = 0
       THEN TrimSuffix(buf, AssistantPrefix)
       ELSE buf

\* Chat.Update, case llm.StreamChunkMsg
ChatChunk(m) ==
  /\ assistantResponse' = assistantResponse \o m.text
  /\ historyBuf' = historyBuf \o m.text
  /\ UNCHANGED sending

\* Chat.Update, case StreamEndMsg, followed by SetSending(false)
ChatEnd ==
  /\ assistantResponse' = << >>
  /\ historyBuf' =
       SetSendingBuf(IF Len(assistantResponse) > 0
                       THEN historyBuf \o NewLines ELSE historyBuf,
                     << >>, FALSE)
  /\ sending' = FALSE

\* Chat.Update, case StreamErrorMsg, followed by SetSending(false)
ChatError(errMsg) ==
  /\ historyBuf' =
       SetSendingBuf(historyBuf \o errMsg \o NewLines, assistantResponse, FALSE)
  /\ sending' = FALSE
  /\ UNCHANGED assistantResponse

\* ---------------------------------------------------------------- producer
NewProducer(model, history) ==
  [pc |-> "marshal", model |-> model, history |-> history,
   acc |-> << >>, errSeen |-> FALSE, lines |-> 0, bad |-> 0, done |-> FALSE,
   ev |-> NoMsg, resume |-> "none",
   emitted |-> << >>, received |-> 0, closes |-> 0, requests |-> 0,
   reqModel |-> ""]

\* msgChan <- e : the goroutine blocks in the send until a receiver takes e,
\* then goes on at `resume`
Offer(p, e, resume) ==
  [p EXCEPT !.pc = "send", !.ev = e, !.resume = resume,
            !.emitted = Append(@, e)]

SetProducer(i, p) == producers' = [producers EXCEPT ![i] = p]

\* the session state of the controller
State ==
  IF streamChan = NIL THEN "Idle"
  ELSE IF chunks = 0 THEN "Requesting" ELSE "Streaming"

Take(m) == msgs (-) SetToBag({m})
Put(b, m) == b (+) SetToBag({m})

Init ==
  /\ activeView = "chatView"
  /\ selectedModel = "m1"
  /\ width = 0
  /\ height = 0
  /\ conversationHistory = << >>
  /\ streamChan = NIL
  /\ sending = FALSE
  /\ historyBuf = << >>
  /\ assistantResponse = << >>
  /\ msgs = EmptyBag
  /\ producers = << >>
  /\ listeners = << >>
  /\ crashed = FALSE
  /\ last = [msg |-> NoMsg, from |-> "Idle", accepted |-> FALSE,
             view |-> "chatView", proj |-> NoMsg]
  /\ turn = [base |-> << >>, prompt |-> << >>]
  /\ chunks = 0
  /\ handled = << >>
  /\ nSends = 0
  /\ nSelects = 0
  /\ nLines = 0
  /\ nFaults = 0
  /\ nBuildFaults = 0


\* ------------------------------------------------------- the event loop
\* Update receives from the channel itself: the loop is held until the
\* stream has an event, or is closed
LoopReadyAfterReceive ==
  /\ ~crashed
  /\ \A i \in 1..Len(listeners) :
       listeners[i] > 0 => producers[i].pc = "send" \/ producers[i].closes > 0

\* the event loop can hand its next message to Update: the process lives,
\* and Update never waits in a receive, which listenToStream wraps in a
\* command that runs apart from the loop
LoopReady == ~crashed

\* ------------------------------------------------------- App.Update: keys
Handled(m, accepted, proj) ==
  [msg |-> m, from |-> State, accepted |-> accepted, view |-> activeView,
   proj |-> proj]

\* the input is tested before it is trimmed
CanSendUntrimmed(text) == ~sending /\ text # << >>

\* Chat.Update, case tea.KeyMsg with the send key: the guard of the send
CanSend(text) == ~sending /\ TrimSpace(text) # << >>

\* App.Update, case tea.KeyMsg, key "enter": `text` is what the textarea
\* holds, `item` the list item the picker has selected
KeyEnter(text, item) ==
  /\ LoopReady
  /\ IF activeView = "chatView"
       THEN IF CanSend(text)
              THEN /\ nSends < MaxSends
                   /\ historyBuf' =
                        historyBuf \o UserLabel \o TrimSpace(text) \o NewLines
                   /\ msgs' = Put(msgs, Msg("SendPromptMsg", TrimSpace(text)))
                   /\ nSends' = nSends + 1
                   /\ UNCHANGED nSelects
              ELSE UNCHANGED <<historyBuf, msgs, keyVars>>
       ELSE /\ nSelects < MaxSelects
            /\ msgs' = Put(msgs, Msg("ModelSelectedMsg", <<item>>))
            /\ nSelects' = nSelects + 1
            /\ UNCHANGED <<historyBuf, nSends>>
  /\ UNCHANGED <<appVars, sending, assistantResponse, producers, listeners,
                 crashed, ghostVars, envVars>>

\* the key opens the picker whether or not a stream is active
PickerKeyIgnoredNever == FALSE

\* if a.streamChan != nil { ...ignoring for now; return a, nil }
PickerKeyIgnored == streamChan # NIL

\* App.Update, case tea.KeyMsg, key ctrl+k
KeyModelPicker ==
  /\ LoopReady
  /\ activeView' =
       IF activeView = "chatView" /\ ~PickerKeyIgnored
         THEN "modelPickerView" ELSE activeView
  /\ UNCHANGED <<selectedModel, sizeVars, conversationHistory, streamChan,
                 chatVars, msgs, producers, listeners, crashed, ghostVars,
                 boundVars>>

\* App.Update, case tea.WindowSizeMsg
WindowSize(size) ==
  /\ LoopReady
  /\ width' = size[1]
  /\ height' = size[2]
  /\ UNCHANGED <<activeView, selectedModel, conversationHistory, streamChan,
                 chatVars, msgs, producers, listeners, crashed, ghostVars,
                 boundVars>>

\* --------------------------------------------------- App.Update: messages
\* the guard lost: every SendPromptMsg starts a stream
SendRejectedNever == FALSE

\* the single-flight guard of case ui.SendPromptMsg
SendRejected == streamChan # NIL

\* the history is started anew with every prompt
UserCommitReset(conv, prompt) == <<Message("user", prompt)>>

\* a.conversationHistory = append(a.conversationHistory, llm.Message{...})
UserCommit(conv, prompt) == Append(conv, Message("user", prompt))

\* the copy misses the Message appended last
HistoryCopyStale(conv) == SubSeq(conv, 1, Len(conv) - 1)

\* historyCopy := make([]llm.Message, len(conv)); copy(historyCopy, conv)
HistoryCopy(conv) == [j \in 1..Len(conv) |-> conv[j]]

\* the Send handler and the chat view both start to listen
ListenFirstTwice == 1 + 1

\* cmds = append(cmds, listenToStream(a.streamChan)): the listen commands
\* the Send handler returns
ListenFirst == 1

\* App.Update, case ui.SendPromptMsg
UpdateSendPromptMsg(m) ==
  /\ LoopReady
  /\ BagIn(m, msgs) /\ m.type = "SendPromptMsg"
  /\ msgs' = Take(m)
  /\ IF SendRejected
       THEN /\ last' = Handled(m, FALSE, NoMsg)
            /\ UNCHANGED <<conversationHistory, streamChan, chatVars,
                           producers, listeners, turn, chunks, handled>>
       ELSE /\ sending' = TRUE
            /\ historyBuf' = SetSendingBuf(historyBuf, assistantResponse, TRUE)
            /\ assistantResponse' = << >>
            /\ conversationHistory' = UserCommit(conversationHistory, m.text)
            /\ producers' =
                 Append(producers,
                        NewProducer(selectedModel,
                                    HistoryCopy(conversationHistory')))
            /\ listeners' = Append(listeners, ListenFirst)
            /\ streamChan' = Len(producers) + 1
            /\ last' = Handled(m, TRUE, NoMsg)
            /\ turn' = [base |-> conversationHistory, prompt |-> m.text]
            /\ chunks' = 0
            /\ handled' = << >>
  /\ UNCHANGED <<activeView, selectedModel, sizeVars, crashed, boundVars>>

\* the handler returns the listen command twice
ListenAgainTwice == 1 + 1

\* cmds = append(cmds, listenToStream(a.streamChan)): the listen commands
\* the Chunk handler returns
ListenAgain == 1

\* each chunk is committed as a Message of its own
ChunkCommitAppend(conv, m) == Append(conv, Message("assistant", m.text))

\* Conversation after the controller handled a Chunk
ChunkCommit(conv, m) == conv

\* App.Update, case llm.StreamChunkMsg
UpdateStreamChunkMsg(m) ==
  /\ LoopReady
  /\ BagIn(m, msgs) /\ m.type = "StreamChunkMsg"
  /\ msgs' = Take(m)
  /\ IF activeView = "chatView" THEN ChatChunk(m) ELSE UNCHANGED chatVars
  /\ listeners' =
       IF streamChan # NIL
         THEN [listeners EXCEPT ![streamChan] = @ + ListenAgain]
         ELSE listeners
  /\ last' = Handled(m, TRUE, IF activeView = "chatView" THEN m ELSE NoMsg)
  /\ chunks' = chunks + 1
  /\ handled' = Append(handled, m)
  /\ conversationHistory' = ChunkCommit(conversationHistory, m)
  /\ UNCHANGED <<activeView, selectedModel, sizeVars, streamChan, producers,
                 crashed, turn, boundVars>>

\* an empty response is not committed
EndCommitSkipEmpty(conv, m) ==
  IF m.text = << >> THEN conv ELSE Append(conv, Message("assistant", m.text))

\* the response is committed twice
EndCommitTwice(conv, m) ==
  conv \o <<Message("assistant", m.text), Message("assistant", m.text)>>

\* Conversation after the controller handled End
EndCommit(conv, m) == Append(conv, Message("assistant", m.text))

\* a.streamChan after the controller handled End
StreamChanAfterEnd == NIL

\* App.Update, case llm.StreamEndMsg
UpdateStreamEndMsg(m) ==
  /\ LoopReady
  /\ BagIn(m, msgs) /\ m.type = "StreamEndMsg"
  /\ msgs' = Take(m)
  /\ conversationHistory' = EndCommit(conversationHistory, m)
  /\ IF activeView = "chatView" THEN ChatEnd ELSE UNCHANGED chatVars
  /\ streamChan' = StreamChanAfterEnd
  /\ last' = Handled(m, TRUE,
                     IF activeView = "chatView"
                       THEN Msg("ui.StreamEndMsg", m.text) ELSE NoMsg)
  /\ handled' = Append(handled, m)
  /\ UNCHANGED <<activeView, selectedModel, sizeVars, producers, listeners,
                 crashed, turn, chunks, boundVars>>

\* fmt.Sprintf("assistant stream error: %s", m.Err.Error())
ErrMsg(m) == <<"assistant stream error: ">> \o m.text

\* the text received so far is committed as the assistant's message
ErrorCommitPartial(conv, m) ==
  Append(conv, Message("assistant", assistantResponse))

\* Conversation after the controller handled Error
ErrorCommit(conv, m) == conv

\* the channel is kept after an Error
StreamChanKept == streamChan

\* a.streamChan after the controller handled Error
StreamChanAfterError == NIL

\* App.Update, case llm.StreamErrorMsg
UpdateStreamErrorMsg(m) ==
  /\ LoopReady
  /\ BagIn(m, msgs) /\ m.type = "StreamErrorMsg"
  /\ msgs' = Take(m)
  /\ conversationHistory' = ErrorCommit(conversationHistory, m)
  /\ IF activeView = "chatView" THEN ChatError(ErrMsg(m))
                                ELSE UNCHANGED chatVars
  /\ streamChan' = StreamChanAfterError
  /\ last' = Handled(m, TRUE,
                     IF activeView = "chatView"
                       THEN Msg("ui.StreamErrorMsg", ErrMsg(m)) ELSE NoMsg)
  /\ handled' = Append(handled, m)
  /\ UNCHANGED <<activeView, selectedModel, sizeVars, producers, listeners,
                 crashed, turn, chunks, boundVars>>

\* App.Update, case modelpicker.ModelSelectedMsg
UpdateModelSelectedMsg(m) ==
  /\ LoopReady
  /\ BagIn(m, msgs) /\ m.type = "ModelSelectedMsg"
  /\ msgs' = Take(m)
  /\ selectedModel' = m.text[1]
  /\ activeView' = "chatView"
  /\ last' = Handled(m, TRUE, NoMsg)
  /\ UNCHANGED <<sizeVars, conversationHistory, streamChan, chatVars,
                 producers, listeners, crashed, turn, chunks, handled,
                 boundVars>>


\* ------------------------------------------ OpenRouterClient.StreamGenerate
Chunk(content) == Msg("StreamChunkMsg", content)
End(fullResponse) == Msg("StreamEndMsg", fullResponse)
Error(err) == Msg("StreamErrorMsg", err)

IsTerminal(e) == e.type \in {"StreamEndMsg", "StreamErrorMsg"}

\* the accumulator is overwritten by the last content
AccumulateOverwrite(acc, content) == content

\* fullResponseContent.WriteString(content)
Accumulate(acc, content) == acc \o content

\* whether one more call may fail in this run
MayFail == nFaults < MaxFaults

\* the outcomes of a call: it succeeds, or fails while failures are left
Outcomes(okay, failures) == IF MayFail THEN {okay} \cup failures ELSE {okay}

Fault(failed) == nFaults' = IF failed THEN nFaults + 1 ELSE nFaults

\* the outcomes of building a request
BuildOutcomes ==
  IF nBuildFaults < MaxBuildFaults THEN {"ok", "failed"} ELSE {"ok"}

BuildFault(failed) ==
  nBuildFaults' = IF failed THEN nBuildFaults + 1 ELSE nBuildFaults

\* the request names the model selected at the time it is built
RequestModelCurrent(p) == selectedModel

\* requestBody := OpenRouterRequest{Model: modelName, ...}: modelName is the
\* argument of the call
RequestModel(p) == p.model

\* requestBody and json.Marshal(requestBody); on failure the error is sent
\* and the function goes on
Marshal(i) ==
  /\ ~crashed
  /\ producers[i].pc = "marshal"
  /\ \E outcome \in BuildOutcomes :
       /\ LET p == [producers[i] EXCEPT !.reqModel = RequestModel(producers[i])]
          IN SetProducer(i, IF outcome = "ok"
                              THEN [p EXCEPT !.pc = "newRequest"]
                              ELSE Offer(p, Error(ErrMarshal), "newRequest"))
       /\ BuildFault(outcome # "ok")
  /\ UNCHANGED <<appVars, chatVars, msgs, listeners, crashed, ghostVars,
                 keyVars, nLines, nFaults>>

\* http.NewRequestWithContext; on failure the error is sent and the function
\* goes on to req.Header.Set with req = nil
NewRequest(i) ==
  /\ ~crashed
  /\ producers[i].pc = "newRequest"
  /\ \E outcome \in BuildOutcomes :
       /\ SetProducer(i, IF outcome = "ok"
                           THEN [producers[i] EXCEPT !.pc = "do"]
                           ELSE Offer(producers[i], Error(ErrNewRequest),
                                      "panic"))
       /\ BuildFault(outcome # "ok")
  /\ UNCHANGED <<appVars, chatVars, msgs, listeners, crashed, ghostVars,
                 keyVars, nLines, nFaults>>

\* the failed request is sent once more
TransportFailedRetries(p) == [p EXCEPT !.pc = "do"]

\* c.httpClient.Do(req) returned an error
TransportFailed(p) == Offer(p, Error(ErrTransport), "return")

\* resp.StatusCode != http.StatusOK
StatusNotOK(p) == Offer(p, Error(ErrStatus), "return")

\* c.httpClient.Do(req) and the status check
Do(i) ==
  /\ ~crashed
  /\ producers[i].pc = "do"
  /\ \E outcome \in Outcomes("OK", {"failed", "notOK"}) :
       /\ LET p == [producers[i] EXCEPT !.requests = @ + 1]
          IN SetProducer(i,
               CASE outcome = "failed" -> TransportFailed(p)
                 [] outcome = "notOK" -> StatusNotOK(p)
                 [] outcome = "OK" -> [p EXCEPT !.pc = "scan"])
       /\ Fault(outcome # "OK")
  /\ UNCHANGED <<appVars, chatVars, msgs, listeners, crashed, ghostVars,
                 keyVars, nLines, nBuildFaults>>

\* a read failure is taken for the end of the body
AfterLoopNoError(p, readErr) == Offer(p, End(p.acc), "return")

\* the statements after the scan loop
AfterLoop(p, readErr) ==
  IF readErr THEN Offer(p, Error(ErrRead), "return")
             ELSE Offer(p, End(p.acc), "return")

\* [DONE] returns from the function
DoneReturns(p) == [p EXCEPT !.pc = "return"]

\* a data line with the payload [DONE]: break
Done(p) == AfterLoop(p, FALSE)

\* no malformed line is tolerated
MalformedStrict(p) == Offer(p, Error(ErrDecode), "return")

\* a data line whose payload json.Unmarshal rejects
Malformed(p) ==
  IF p.errSeen THEN Offer(p, Error(ErrDecode), "return")
               ELSE [p EXCEPT !.errSeen = TRUE]

\* the error is sent and the loop goes on
EmbeddedErrorGoesOn(p, error) ==
  Offer(p, Error(ErrApi(error.message)), "scan")

\* a decoded payload with chunk.Error != nil
EmbeddedError(p, error) == Offer(p, Error(ErrApi(error.message)), "return")

\* a line without the prefix is taken for a payload
IgnoredAsPayload(p) == Malformed(p)

\* an empty line, a line beginning with ":", a line without "data: "
Ignored(p) == p

\* a finish_reason ends the function
AfterChoicesFinish(line) == IF line.finish THEN "return" ELSE "scan"

\* where the loop goes on after the choices of a payload: FinishReason is
\* logged, and the next line is read
AfterChoices(line) == "scan"

\* the body of the scan loop for one line
ProcessLine(p, line) ==
  CASE line.kind \in {"blank", "comment", "noprefix"} -> Ignored(p)
    [] line.kind = "done" -> Done(p)
    [] line.kind = "malformed" -> Malformed(p)
    [] line.kind = "data" ->
         IF line.error.present THEN EmbeddedError(p, line.error)
         ELSE IF line.choices > 0
                THEN IF line.content # << >>
                       THEN Offer([p EXCEPT
                                     !.acc = Accumulate(@, line.content)],
                                  Chunk(line.content), AfterChoices(line))
                       ELSE [p EXCEPT !.pc = AfterChoices(line)]
                ELSE p

\* scanner.Scan() returns true with the next line; the record counts the
\* lines read and the malformed ones among them, and notes a [DONE]
ScanLine(i, line) ==
  /\ ~crashed
  /\ producers[i].pc = "scan"
  /\ nLines < MaxLines
  /\ line \in Lines(nLines + 1)
  /\ nLines' = nLines + 1
  /\ SetProducer(i,
       ProcessLine([producers[i] EXCEPT
                      !.lines = @ + 1,
                      !.bad = IF line.kind = "malformed" THEN @ + 1 ELSE @,
                      !.done = (line.kind = "done")],
                   line))
  /\ UNCHANGED <<appVars, chatVars, msgs, listeners, crashed, ghostVars,
                 keyVars, nFaults, nBuildFaults>>

\* scanner.Scan() returns false: end of the body, or a read failure
ScanEnd(i) ==
  /\ ~crashed
  /\ producers[i].pc = "scan"
  /\ \E outcome \in Outcomes("EOF", {"failed"}) :
       /\ SetProducer(i, AfterLoop(producers[i], outcome # "EOF"))
       /\ Fault(outcome # "EOF")
  /\ UNCHANGED <<appVars, chatVars, msgs, listeners, crashed, ghostVars,
                 keyVars, nLines, nBuildFaults>>

\* defer close(msgChan): the goroutine is gone, and with it its locals; what
\* stays is the channel, closed once more, what was sent on it and the
\* requests made
Closed(p) ==
  [NewProducer("", << >>) EXCEPT !.pc = "done", !.closes = p.closes + 1,
                                 !.received = p.received,
                                 !.emitted = p.emitted,
                                 !.requests = p.requests]

\* the function returns: the deferred close(msgChan) runs
Return(i) ==
  /\ ~crashed
  /\ producers[i].pc = "return"
  /\ SetProducer(i, Closed(producers[i]))
  /\ UNCHANGED <<appVars, chatVars, msgs, listeners, crashed, ghostVars, boundVars>>

\* req.Header.Set on a nil request: the goroutine panics, the deferred close
\* runs and the process dies
Panic(i) ==
  /\ ~crashed
  /\ producers[i].pc = "panic"
  /\ SetProducer(i, Closed(producers[i]))
  /\ crashed' = TRUE
  /\ UNCHANGED <<appVars, chatVars, msgs, listeners, ghostVars, boundVars>>

\* the command of listenToStream: its receive on channel i completes, with
\* the event a blocked sender offers, or with !ok on a closed channel
Listen(i) ==
  /\ ~crashed
  /\ listeners[i] > 0
  /\ producers[i].pc = "send" \/ producers[i].closes > 0
  /\ listeners' = [listeners EXCEPT ![i] = @ - 1]
  /\ IF producers[i].pc = "send"
       THEN /\ msgs' = Put(msgs, [producers[i].ev EXCEPT !.ch = i])
            /\ SetProducer(i, [producers[i] EXCEPT !.pc = producers[i].resume,
                                                   !.received = @ + 1])
       ELSE UNCHANGED <<msgs, producers>>
  /\ UNCHANGED <<appVars, chatVars, crashed, ghostVars, boundVars>>

\* ----------------------------------------------------------- specification
Next ==
  \/ \E text \in Inputs(nSends + 1), item \in Models : KeyEnter(text, item)
  \/ KeyModelPicker
  \/ \E size \in Sizes : WindowSize(size)
  \/ \E m \in BagToSet(msgs) : UpdateSendPromptMsg(m)
  \/ \E m \in BagToSet(msgs) : UpdateStreamChunkMsg(m)
  \/ \E m \in BagToSet(msgs) : UpdateStreamEndMsg(m)
  \/ \E m \in BagToSet(msgs) : UpdateStreamErrorMsg(m)
  \/ \E m \in BagToSet(msgs) : UpdateModelSelectedMsg(m)
  \/ \E i \in 1..Len(producers) : Marshal(i)
  \/ \E i \in 1..Len(producers) : NewRequest(i)
  \/ \E i \in 1..Len(producers) : Do(i)
  \/ \E i \in 1..Len(producers), line \in Lines(nLines + 1) : ScanLine(i, line)
  \/ \E i \in 1..Len(producers) : ScanEnd(i)
  \/ \E i \in 1..Len(producers) : Return(i)
  \/ \E i \in 1..Len(producers) : Panic(i)
  \/ \E i \in 1..Len(producers) : Listen(i)

Spec == Init /\ [][Next]_vars

\* one step of the goroutine of producer i
ProducerStep(i) ==
  /\ i \in 1..Len(producers)
  /\ \/ Marshal(i)
     \/ NewRequest(i)
     \/ Do(i)
     \/ \E line \in Lines(nLines + 1) : ScanLine(i, line)
     \/ ScanEnd(i)
     \/ Return(i)
     \/ Panic(i)

\* the receive of a listen command on channel i
ListenStep(i) == i \in 1..Len(producers) /\ Listen(i)

\* the event loop hands one waiting message to Update
UpdateStep ==
  \E m \in BagToSet(msgs) :
    \/ UpdateSendPromptMsg(m)
    \/ UpdateStreamChunkMsg(m)
    \/ UpdateStreamEndMsg(m)
    \/ UpdateStreamErrorMsg(m)
    \/ UpdateModelSelectedMsg(m)

\* Goroutines that can run do run, a request comes to an end (the client has
\* a timeout), commands are run and the event loop handles what waits for
\* it. Nothing is assumed of the user's keys.
FairSpec ==
  /\ Spec
  /\ \A i \in 1..MaxSends : WF_vars(ProducerStep(i)) /\ WF_vars(ListenStep(i))
  /\ WF_vars(UpdateStep)


\* ------------------------------------------------------------------ claims
UserTurn == Append(turn.base, Message("user", turn.prompt))

\* C1: single-flight. Handling a SendPromptMsg while a stream is active
\* (streamChan non-nil) changes neither Conversation nor the stream channel,
\* and starts no producer.
SingleFlight ==
  [][\A m \in BagToSet(msgs) :
       (streamChan # NIL /\ UpdateSendPromptMsg(m))
         => UNCHANGED <<conversationHistory, streamChan, producers, listeners>>
    ]_vars

\* a SendPromptMsg was handled, and dropped, while chunks were streaming
SingleFlightWitness ==
  /\ last.msg.type = "SendPromptMsg"
  /\ last.from = "Streaming"
  /\ ~last.accepted
  /\ Len(producers) = 1

\* C2: failure commit shape. Once the controller has handled the Error that
\* ends a turn, Conversation is Conversation before the Send plus the user's
\* Message, and nothing else.
FailureCommitShape ==
  last.msg.type = "StreamErrorMsg" => conversationHistory = UserTurn

\* an Error was handled after a Chunk of the same turn
FailureCommitWitness ==
  /\ last.msg.type = "StreamErrorMsg"
  /\ last.from = "Streaming"
  /\ assistantResponse # << >>

\* C3: success commit shape. Once the controller has handled the End that
\* ends a turn, Conversation is Conversation before the Send plus the user's
\* Message plus the assistant's Message with End's full text, in this order.
SuccessCommitShape ==
  last.msg.type = "StreamEndMsg" =>
    conversationHistory =
      Append(UserTurn, Message("assistant", last.msg.text))

\* a second turn ended with End and no Chunk, after a first one with text
SuccessCommitWitness ==
  /\ last.msg.type = "StreamEndMsg"
  /\ last.from = "Requesting"
  /\ last.msg.text = << >>
  /\ Len(conversationHistory) = 4
  /\ conversationHistory[2].Content # << >>


\* C4: event grammar. What a producer sends on its channel is Chunk events
\* followed by exactly one terminal event (End or Error): nothing is sent
\* after a terminal event, and a producer that returns has sent one.
EventGrammar ==
  \A i \in 1..Len(producers) :
    LET es == producers[i].emitted
    IN /\ \A j \in 1..(Len(es) - 1) : ~IsTerminal(es[j])
       /\ producers[i].pc = "return" => es # << >> /\ IsTerminal(es[Len(es)])

\* C5: channel closure. The channel of every producer is eventually closed,
\* it is closed once, and not before the consumer has received an event on it.
ChannelClosure ==
  /\ \A i \in 1..MaxSends :
       [](Len(producers) >= i
            => <>(Len(producers) >= i /\ producers[i].closes = 1))
  /\ [](\A i \in 1..Len(producers) :
          /\ producers[i].closes <= 1
          /\ producers[i].closes = 1 => producers[i].received >= 1)

RECURSIVE ConcatChunks(_)
ConcatChunks(es) ==
  IF es = << >> THEN << >>
  ELSE (IF Head(es).type = "StreamChunkMsg" THEN Head(es).text ELSE << >>)
       \o ConcatChunks(Tail(es))

\* C6: chunk integrity. The full text of an End a producer sends is the
\* concatenation, in order, of the texts of the Chunk events it sent before.
ChunkIntegrity ==
  \A i \in 1..Len(producers) :
    LET es == producers[i].emitted
    IN \A j \in 1..Len(es) :
         es[j].type = "StreamEndMsg" =>
           es[j].text = ConcatChunks(SubSeq(es, 1, j - 1))

\* a stream with a tolerated malformed line and a Chunk ended with End
ChunkIntegrityWitness ==
  \E i \in 1..Len(producers) :
    LET es == producers[i].emitted
    IN /\ producers[i].errSeen
       /\ Len(es) = 2
       /\ es[1].type = "StreamChunkMsg"
       /\ es[2].type = "StreamEndMsg"

\* a prompt typed into the chat view would be sent on Enter
AcceptsPrompt == \A text \in Inputs(nSends + 1) :
                   TrimSpace(text) # << >> => CanSend(text)

\* C7: End transition. Once the controller has handled End it is Idle, the
\* chat view has been given the finalize projection with End's full text,
\* the sending indicator is off and a prompt is accepted.
EndTransition ==
  last.msg.type = "StreamEndMsg" =>
    /\ State = "Idle"
    /\ last.proj = Msg("ui.StreamEndMsg", last.msg.text)
    /\ ~sending
    /\ AcceptsPrompt

\* C8: Error transition. Once the controller has handled Error it is Idle,
\* the chat view has been given the error projection with the error text,
\* the sending indicator is off and a prompt is accepted.
ErrorTransition ==
  last.msg.type = "StreamErrorMsg" =>
    /\ State = "Idle"
    /\ last.proj = Msg("ui.StreamErrorMsg", ErrMsg(last.msg))
    /\ ~sending
    /\ AcceptsPrompt

\* a producer that has not yet had its last send received
Active(p) == p.pc \notin {"return", "panic", "done"}

\* C9: at most one producer. No two producers are active at once.
AtMostOneProducer ==
  Cardinality({i \in 1..Len(producers) : Active(producers[i])}) <= 1

\* C10: state reachability. The controller starts Idle; its state changes
\* only Idle->Requesting by a Send, Requesting->Streaming by a Chunk, and
\* Requesting|Streaming->Idle by End or Error; a Chunk is handled only when
\* not Idle and leads to Streaming, End and Error are handled only when not
\* Idle and lead to Idle.
StateStep ==
  LET send == \E m \in BagToSet(msgs) : UpdateSendPromptMsg(m)
      chunk == \E m \in BagToSet(msgs) : UpdateStreamChunkMsg(m)
      term == \E m \in BagToSet(msgs) :
                UpdateStreamEndMsg(m) \/ UpdateStreamErrorMsg(m)
  IN /\ chunk => State # "Idle" /\ State' = "Streaming"
     /\ term => State # "Idle" /\ State' = "Idle"
     /\ State' # State =>
          \/ State = "Idle" /\ State' = "Requesting" /\ send
          \/ State = "Requesting" /\ State' = "Streaming" /\ chunk
          \/ State # "Idle" /\ State' = "Idle" /\ term

StateReachability == State = "Idle" /\ [][StateStep]_vars

\* a second turn went Idle, Requesting, Streaming, Idle
StateReachabilityWitness ==
  /\ last.msg.type = "StreamEndMsg"
  /\ last.from = "Streaming"
  /\ State = "Idle"
  /\ Len(producers) = 2

IsPrefix(s, t) == Len(s) <= Len(t) /\ SubSeq(t, 1, Len(s)) = s

\* C11: Conversation is append-only. Every step, whatever the operation,
\* leaves the Conversation it found as a prefix of the Conversation it
\* leaves: entries are never modified, reordered or removed.
AppendOnly == [][IsPrefix(conversationHistory, conversationHistory')]_vars

\* two turns were committed and the window was resized
AppendOnlyWitness ==
  /\ Len(conversationHistory) = 4
  /\ conversationHistory[3].Role = "user"
  /\ width # 0

\* C12: Snapshot. On an accepted Send the list handed to the producer is
\* Conversation right after the user's Message was appended to it (the
\* earlier Messages in order and the prompt last, once), and the list a
\* running producer holds never changes afterwards.
SnapshotStep ==
  /\ \A m \in BagToSet(msgs) :
       (streamChan = NIL /\ UpdateSendPromptMsg(m)) =>
         /\ conversationHistory' =
              Append(conversationHistory, Message("user", m.text))
         /\ producers'[Len(producers')].history = conversationHistory'
  /\ \A i \in 1..Len(producers) :
       producers'[i].pc # "done" =>
         producers'[i].history = producers[i].history

Snapshot == [][SnapshotStep]_vars

\* the producer of a second turn still holds its three Messages after the
\* assistant's Message was appended to Conversation
SnapshotWitness ==
  \E i \in 1..Len(producers) :
    /\ producers[i].pc = "return"
    /\ Len(producers[i].history) = 3
    /\ Len(conversationHistory) = 4

\* C13: no incremental commit. Handling a Chunk leaves Conversation as it
\* is, no step of a producer or of a listen command changes it, and it
\* changes only when the controller handles an accepted Send or an End.
NoIncrementalCommitStep ==
  conversationHistory' # conversationHistory =>
    /\ ~\E m \in BagToSet(msgs) : UpdateStreamChunkMsg(m)
    /\ ~\E i \in 1..Len(producers) : ProducerStep(i) \/ ListenStep(i)
    /\ \/ \E m \in BagToSet(msgs) : ~SendRejected /\ UpdateSendPromptMsg(m)
       \/ \E m \in BagToSet(msgs) : UpdateStreamEndMsg(m)

NoIncrementalCommit == [][NoIncrementalCommitStep]_vars

\* two Chunks of a second turn were handled and nothing was committed
NoIncrementalCommitWitness ==
  /\ last.msg.type = "StreamChunkMsg"
  /\ chunks = 2
  /\ conversationHistory = UserTurn
  /\ Len(conversationHistory) = 3

\* an event as the producer sent it
Untag(m) == [m EXCEPT !.ch = NIL]

\* C14: ordering. The stream events the controller has handled in a turn
\* all came from the channel of that turn, they are, in order, the first
\* events the turn's producer sent, and none was handled after a terminal
\* event.
Ordering ==
  /\ \A j \in 1..Len(handled) : handled[j].ch = Len(producers)
  /\ Len(producers) > 0 =>
       IsPrefix([j \in 1..Len(handled) |-> Untag(handled[j])],
                producers[Len(producers)].emitted)
  /\ \A j \in 1..(Len(handled) - 1) : ~IsTerminal(handled[j])

\* two Chunks and the End of one stream were handled
OrderingWitness ==
  /\ Len(handled) = 3
  /\ handled[1].type = "StreamChunkMsg"
  /\ handled[2].type = "StreamChunkMsg"
  /\ handled[3].type = "StreamEndMsg"

\* C15: incremental projection. Every Chunk the controller handles is
\* projected to the chat view, once and with its text, and its text is
\* appended to Chat.assistantResponse.
IncrementalProjection ==
  [][\A m \in BagToSet(msgs) :
       UpdateStreamChunkMsg(m) =>
         /\ last'.proj = m
         /\ assistantResponse' = assistantResponse \o m.text
         /\ historyBuf' = historyBuf \o m.text
    ]_vars

\* C16: non-blocking consumption. While a stream is active and the process
\* lives, a key press and a resize can be handled at once, whether or not
\* the stream has its next event, and a Chunk that waits is handled without
\* waiting for the event after it.
NonBlocking ==
  (streamChan # NIL /\ ~crashed) =>
    /\ ENABLED KeyModelPicker
    /\ \A size \in Sizes : ENABLED WindowSize(size)
    /\ \A m \in BagToSet(msgs) :
         m.type = "StreamChunkMsg" => ENABLED UpdateStreamChunkMsg(m)

\* a Chunk was handled, the next receive is armed and the producer has
\* nothing to send yet
NonBlockingWitness ==
  /\ streamChan # NIL
  /\ last.msg.type = "StreamChunkMsg"
  /\ listeners[streamChan] > 0
  /\ producers[streamChan].pc = "scan"
  /\ width # 0

\* the lines of a kind that a step reading a line may have read
LinesRead(kind) ==
  IF nLines' = nLines + 1
    THEN {line \in Lines(nLines + 1) : line.kind = kind} ELSE {}

\* the producer has sent its last event and will not read on
Finishing(p) ==
  \/ p.pc = "send" /\ p.resume = "return"
  \/ p.pc = "return"

\* the step of producer i sent e as its last event
SentLast(i, e) ==
  /\ producers'[i].emitted = Append(producers[i].emitted, e)
  /\ Finishing(producers'[i])

DecodeErrors(es) == {j \in 1..Len(es) : es[j] = Error(ErrDecode)}

\* C17: decode tolerance. The first malformed data line of a stream sends
\* no event and reading goes on; the second one sends Error{decode} as the
\* last event of the stream; a stream with one malformed line has no decode
\* Error.
DecodeToleranceStep ==
  \A i \in 1..Len(producers), line \in LinesRead("malformed") :
    ScanLine(i, line) =>
      IF producers[i].bad = 0
        THEN /\ producers'[i].emitted = producers[i].emitted
             /\ producers'[i].pc = "scan"
        ELSE SentLast(i, Error(ErrDecode))

DecodeToleranceInv ==
  \A i \in 1..Len(producers) :
    LET p == producers[i]
    IN p.pc # "done" =>
         /\ p.bad <= 2
         /\ p.bad < 2 => DecodeErrors(p.emitted) = {}
         /\ p.bad = 2 =>
              DecodeErrors(p.emitted) = {Len(p.emitted)} /\ Finishing(p)

IsApiError(e) ==
  e.type = "StreamErrorMsg" /\ e.text # << >>
    /\ Head(e.text) = Head(ErrApi(<< >>))

\* C18: embedded API error. A decoded payload with an error field makes the
\* producer send one Error{api} with error.message as its cause, and nothing
\* else: no Chunk for the payload's content, no later line read, no End.
EmbeddedApiErrorStep ==
  \A i \in 1..Len(producers), line \in LinesRead("data") :
    (line.error.present /\ ScanLine(i, line)) =>
      /\ SentLast(i, Error(ErrApi(line.error.message)))
      /\ producers'[i].acc = producers[i].acc

EmbeddedApiErrorInv ==
  \A i \in 1..Len(producers) :
    LET p == producers[i]
    IN \A j \in 1..Len(p.emitted) :
         IsApiError(p.emitted[j]) =>
           j = Len(p.emitted) /\ (p.pc = "done" \/ Finishing(p))

EmbeddedApiError == []EmbeddedApiErrorInv /\ [][EmbeddedApiErrorStep]_vars

\* the second line of a body carried an error: a Chunk, then Error{api}
EmbeddedApiErrorWitness ==
  \E i \in 1..Len(producers) :
    LET p == producers[i]
    IN /\ Len(p.emitted) = 2
       /\ p.emitted[1].type = "StreamChunkMsg"
       /\ IsApiError(p.emitted[2])
       /\ p.acc = p.emitted[1].text
       /\ p.pc = "return"

\* C19: [DONE]. A data line with the payload [DONE] ends the reading: the
\* producer sends End with the accumulator as its last event, no Error, and
\* reads no further line.
DoneHandlingStep ==
  \A i \in 1..Len(producers), line \in LinesRead("done") :
    ScanLine(i, line) =>
      SentLast(i, End(producers[i].acc))

DoneHandlingInv ==
  \A i \in 1..Len(producers) :
    LET p == producers[i]
    IN p.done =>
         /\ p.emitted # << >>
         /\ p.emitted[Len(p.emitted)] = End(p.acc)
         /\ Finishing(p)

DoneHandling == []DoneHandlingInv /\ [][DoneHandlingStep]_vars

\* a Chunk, then [DONE]: End carries the Chunk's text
DoneHandlingWitness ==
  \E i \in 1..Len(producers) :
    LET p == producers[i]
    IN /\ p.done
       /\ p.pc = "return"
       /\ Len(p.emitted) = 2
       /\ p.emitted[1].type = "StreamChunkMsg"
       /\ p.emitted[2] = End(p.emitted[1].text)

\* C20: end of the body. When the body has no more lines, the producer
\* sends exactly one last event: Error{stream-read} if the reader failed,
\* End with the accumulator otherwise.
EndOfBody ==
  [][\A i \in 1..Len(producers) :
       (producers[i].pc = "scan" /\ ScanEnd(i)) =>
         SentLast(i, IF nFaults' > nFaults THEN Error(ErrRead)
                                           ELSE End(producers[i].acc))
    ]_vars

\* the read failed after a Chunk
EndOfBodyWitness ==
  \E i \in 1..Len(producers) :
    LET p == producers[i]
    IN /\ ~p.done
       /\ Len(p.emitted) = 2
       /\ p.emitted[1].type = "StreamChunkMsg"
       /\ p.emitted[2] = Error(ErrRead)

PreStreamError(e) == e \in {Error(ErrTransport), Error(ErrStatus)}

\* C21: pre-stream failures. A stream in which the request failed at
\* transport level, or was answered with a status other than OK, consists
\* of that one Error event: no other event, and no body line read.
PreStreamFailure ==
  \A i \in 1..Len(producers) :
    LET p == producers[i]
    IN \A j \in 1..Len(p.emitted) :
         PreStreamError(p.emitted[j]) =>
           Len(p.emitted) = 1 /\ p.lines = 0

UserMessages == {j \in 1..Len(conversationHistory) :
                   conversationHistory[j].Role = "user"}

\* C22: no retry. There is one StreamGenerate invocation for each accepted
\* Send and none else, and no invocation issues more than one HTTP request,
\* whatever Errors occurred.
NoRetry ==
  /\ Len(producers) = Cardinality(UserMessages)
  /\ \A i \in 1..Len(producers) : producers[i].requests <= 1

\* a second turn was started by a Send after the first had failed in
\* transport; each turn made one request
NoRetryWitness ==
  /\ Len(producers) = 2
  /\ producers[1].emitted = <<Error(ErrTransport)>>
  /\ producers[1].requests = 1
  /\ producers[2].requests = 1
  /\ last.msg.type = "StreamErrorMsg"
  /\ handled # << >>

HasContent(line) == line.choices > 0 /\ line.content # << >>

\* C23: finish_reason does not terminate. A decoded payload without an error
\* field never ends the reading, whether it carries a finish_reason or
\* follows a payload that did: the next line is read, and content that is
\* not empty is sent as a Chunk.
FinishReasonStep ==
  \A i \in 1..Len(producers), line \in LinesRead("data") :
    (~line.error.present /\ ScanLine(i, line)) =>
      LET p == producers[i]
          q == producers'[i]
      IN /\ ~Finishing(q)
         /\ q.pc = "scan" \/ (q.pc = "send" /\ q.resume = "scan")
         /\ HasContent(line) =>
              q.emitted = Append(p.emitted, Chunk(line.content))

FinishReason == [][FinishReasonStep]_vars

\* the first line of the body carried a finish_reason and content, and the
\* content of the line after it was sent as a Chunk too
FinishReasonWitness ==
  \E i \in 1..Len(producers) :
    LET p == producers[i]
    IN /\ nLines = 2
       /\ p.lines = 2
       /\ \A line \in DataLines(1) : line.choices > 0 => line.finish
       /\ Len(p.emitted) = 2
       /\ p.emitted[1] \in {Chunk(c) : c \in ChunkTexts(1)}
       /\ p.emitted[2] \in {Chunk(c) : c \in ChunkTexts(2)}
       /\ p.pc = "scan"

\* C24: ignored input. A blank line, a line beginning with ":" and a line
\* without the "data: " prefix send no event and leave the accumulator and
\* the count of malformed lines as they were; a decoded payload without
\* choices, or with empty content, sends no Chunk. Every Chunk sent has a
\* text that is not empty.
IgnoredInputStep ==
  \A i \in 1..Len(producers) :
    LET p == producers[i]
        q == producers'[i]
    IN /\ \A kind \in {"blank", "comment", "noprefix"} :
            \A line \in LinesRead(kind) :
              ScanLine(i, line) =>
                /\ q.emitted = p.emitted
                /\ q.acc = p.acc
                /\ q.errSeen = p.errSeen
                /\ q.bad = p.bad
                /\ q.pc = "scan"
       /\ \A line \in LinesRead("data") :
            (~line.error.present /\ ~HasContent(line) /\ ScanLine(i, line)) =>
              /\ q.emitted = p.emitted
              /\ q.acc = p.acc
              /\ q.pc = "scan"

IgnoredInputInv ==
  \A i \in 1..Len(producers) :
    \A j \in 1..Len(producers[i].emitted) :
      producers[i].emitted[j].type = "StreamChunkMsg" =>
        producers[i].emitted[j].text # << >>

IgnoredInput == []IgnoredInputInv /\ [][IgnoredInputStep]_vars

\* a malformed line, then an ignored line: the tolerance is still used up
\* and nothing was sent
IgnoredInputWitness ==
  \E i \in 1..Len(producers) :
    LET p == producers[i]
    IN /\ p.lines = 2
       /\ p.bad = 1
       /\ p.errSeen
       /\ p.emitted = << >>
       /\ p.acc = << >>
       /\ p.pc = "scan"

BuildError(e) == e \in {Error(ErrMarshal), Error(ErrNewRequest)}

\* C25: request-build failure. An Error sent because the request body could
\* not be marshalled, or the request not be built, is the last event of its
\* stream; the producer makes no HTTP request and goes on to nothing but
\* its return.
BuildFailure ==
  \A i \in 1..Len(producers) :
    LET p == producers[i]
    IN \A j \in 1..Len(p.emitted) :
         BuildError(p.emitted[j]) =>
           /\ j = Len(p.emitted)
           /\ p.requests = 0
           /\ p.pc = "done" \/ Finishing(p)

\* C26: liveness of a turn. Whenever a stream is active, the controller
\* is later Idle with the chat view ready to accept a prompt.
TurnLiveness == (streamChan # NIL) ~> (streamChan = NIL /\ ~sending)

\* C27: the sending flag of the chat view is set exactly when a stream is
\* active.
SendingAgrees == sending <=> streamChan # NIL

\* C28: while a stream is active the chat view is the active view.
StreamInChatView == streamChan # NIL => activeView = "chatView"

\* the user lines of the rendered history
UserLines == {j \in 1..Len(historyBuf) : <<historyBuf[j]>> = UserLabel}

\* the SendPromptMsg that wait for the event loop
PendingSends ==
  LET waiting == {m \in BagToSet(msgs) : m.type = "SendPromptMsg"}
  IN BagCardinality([m \in waiting |-> msgs[m]])

\* C29: prompts shown and prompts sent. Every user line of the rendered
\* history is a SendPromptMsg still to be handled, or one user Message of
\* Conversation with one StreamGenerate invocation: none was dropped.
PromptConsistency ==
  /\ Cardinality(UserLines) = Cardinality(UserMessages) + PendingSends
  /\ Cardinality(UserMessages) = Len(producers)

\* the events of channel i that wait for the event loop
InFlight(i) ==
  LET waiting == {m \in BagToSet(msgs) : m.ch = i}
  IN BagCardinality([m \in waiting |-> msgs[m]])

\* C30: single reader. A channel has at most one listen command, and none
\* while an event received from it waits to be handled; a listen command is
\* armed by the Send that makes the channel and by the handling of a Chunk
\* received from it, one at a time, and by nothing else.
SingleReaderInv ==
  \A i \in 1..Len(listeners) : listeners[i] + InFlight(i) <= 1

SingleReaderStep ==
  \A i \in 1..Len(listeners') :
    LET before == IF i <= Len(listeners) THEN listeners[i] ELSE 0
    IN listeners'[i] > before =>
         /\ listeners'[i] = before + 1
         /\ \/ /\ i = Len(listeners) + 1
               /\ streamChan = NIL /\ streamChan' = i
               /\ \E m \in BagToSet(msgs) : UpdateSendPromptMsg(m)
            \/ /\ i = streamChan
               /\ \E m \in BagToSet(msgs) : m.ch = i /\ UpdateStreamChunkMsg(m)

SingleReader == []SingleReaderInv /\ [][SingleReaderStep]_vars

\* a Chunk of the second stream was handled and the next receive is armed,
\* while the channel of the first stream has no listen command left
SingleReaderWitness ==
  /\ streamChan = 2
  /\ chunks = 1
  /\ last.msg.type = "StreamChunkMsg"
  /\ listeners = <<0, 1>>
  /\ InFlight(2) = 0

\* C31: accumulation agreement. When the controller handles End, the text
\* the chat view has accumulated from the Chunks of the stream is End's full
\* text.
AccumulationAgreement ==
  [][\A m \in BagToSet(msgs) :
       UpdateStreamEndMsg(m) => assistantResponse = m.text
    ]_vars

Roles == [j \in 1..Len(conversationHistory) |-> conversationHistory[j].Role]

AssistantMessages == {j \in 1..Len(Roles) : Roles[j] = "assistant"}

\* the turn the user Message at j began
TurnOf(j) == Cardinality({k \in UserMessages : k <= j})

\* the controller received an Error in turn t
FailedTurn(t) ==
  /\ t \in 1..Len(producers)
  /\ \E k \in 1..producers[t].received :
       producers[t].emitted[k].type = "StreamErrorMsg"

\* C32: role structure. Conversation begins with a user Message, every
\* assistant Message comes right after a user Message, and there are never
\* more assistant Messages than user Messages; a user Message comes right
\* after another only when the turn of the first failed.
RoleStructure ==
  /\ Roles # << >> => Roles[1] = "user"
  /\ \A j \in AssistantMessages : j > 1 /\ Roles[j - 1] = "user"
  /\ Cardinality(AssistantMessages) <= Cardinality(UserMessages)
  /\ \A j \in UserMessages :
       (j < Len(Roles) /\ Roles[j + 1] = "user") => FailedTurn(TurnOf(j))

\* a turn that failed, then a turn that ended: two user Messages in a row,
\* then the assistant's
RoleStructureWitness ==
  /\ Roles = <<"user", "user", "assistant">>
  /\ streamChan = NIL

\* C33: the model-picker key. Pressed while a stream is active it changes
\* nothing: not the view, the selected model, Conversation or the stream.
\* Pressed when no stream is active it makes the model picker the active
\* view and changes nothing else.
PickerKeyFrame ==
  [][KeyModelPicker =>
       /\ streamChan # NIL => activeView' = activeView
       /\ streamChan = NIL => activeView' = "modelPickerView"
       /\ UNCHANGED <<selectedModel, conversationHistory, streamChan,
                      producers, listeners, msgs, chatVars>>
    ]_vars

\* the picker was opened after a turn had ended
PickerKeyFrameWitness ==
  /\ activeView = "modelPickerView"
  /\ streamChan = NIL
  /\ Roles = <<"user", "assistant">>
  /\ PendingSends = 0
  /\ ~sending

\* C34: model selection. Handling ModelSelectedMsg sets the selected model
\* and makes the chat view the active view; Conversation, the stream and
\* its producer stay as they are. A producer is started with the model
\* selected when its Send is handled, and its request names that model
\* whatever is selected later.
ModelSelectionStep ==
  /\ \A m \in BagToSet(msgs) :
       UpdateModelSelectedMsg(m) =>
         /\ selectedModel' = m.text[1]
         /\ activeView' = "chatView"
         /\ UNCHANGED <<conversationHistory, streamChan, producers,
                        listeners>>
  /\ Len(producers') > Len(producers) =>
       producers'[Len(producers')].model = selectedModel
  /\ \A i \in 1..Len(producers) :
       producers'[i].pc # "done" => producers'[i].model = producers[i].model

ModelSelectionInv ==
  \A i \in 1..Len(producers) :
    producers[i].pc \notin {"marshal", "done"} =>
      producers[i].reqModel = producers[i].model

ModelSelection == []ModelSelectionInv /\ [][ModelSelectionStep]_vars

\* a request was made for a stream, and the model selected now is not the
\* one it was started with
ModelSelectionWitness ==
  /\ streamChan # NIL
  /\ last.msg.type = "ModelSelectedMsg"
  /\ producers[streamChan].requests = 1
  /\ producers[streamChan].reqModel # selectedModel
  /\ producers[streamChan].reqModel = "m1"

Trimmed(s) == s # << >> /\ Head(s) # " " /\ s[Len(s)] # " "

\* C35: empty or blocked Enter. Enter in the chat view with an input that is
\* empty once trimmed, or while the chat view is sending, emits no
\* SendPromptMsg and adds no user line; otherwise it emits one SendPromptMsg
\* with the trimmed input and adds one user line with it. Every
\* SendPromptMsg carries a prompt that is not empty and has no blanks around
\* it.
EnterStep ==
  \A text \in Inputs(nSends + 1), item \in Models :
    (activeView = "chatView" /\ KeyEnter(text, item)) =>
      IF sending \/ TrimSpace(text) = << >>
        THEN UNCHANGED <<msgs, historyBuf>>
        ELSE /\ Trimmed(TrimSpace(text))
             /\ msgs' = Put(msgs, Msg("SendPromptMsg", TrimSpace(text)))
             /\ historyBuf' =
                  historyBuf \o UserLabel \o TrimSpace(text) \o NewLines

EnterInv ==
  \A m \in BagToSet(msgs) : m.type = "SendPromptMsg" => Trimmed(m.text)

EnterGuard == []EnterInv /\ [][EnterStep]_vars

\* the first prompt was shown and its SendPromptMsg waits for the event loop
EnterGuardWitness ==
  /\ PendingSends = 1
  /\ historyBuf = UserLabel \o <<"p1">> \o NewLines
  /\ conversationHistory = << >>
  /\ ~sending


\* ------------------------------------------- the non-streaming application
\* internal/app/app.go and internal/llm/client.go: the application that
\* cmd/ask/main.go builds. It has the chat view and the model picker of the
\* streaming one, and its keys, resize and ModelSelectedMsg are handled by
\* the same code but for the model-picker key; a prompt is answered by one
\* Generate call in a command. `producers` holds the commands' goroutines;
\* there is no channel, and the variables of the stream keep their first
\* values.

\* fmt.Errorf("HTTP request failed: %w", err), for every error of Generate
ErrGenerate == <<"HTTP request failed">>

\* the content of the reply to the i-th call
Response(i) == <<"r" \o ToString(i)>>

\* the closure of case ui.SendPromptMsg: it holds model and prompt, and
\* reaches the conversation through a; `sent` notes the conversation at the
\* time the command was made
NewCommand(model, prompt, conv) ==
  [pc |-> "call", model |-> model, prompt |-> prompt, sent |-> conv,
   messages |-> << >>, response |-> << >>, local |-> << >>]

\* Generate: the messages of the request
GenerateMessages(prompt, history) == history \o <<Message("user", prompt)>>

\* what conversationHistory may hold after the command's unsynchronized
\* append of x, begun when it held `local`, if Update appended meanwhile:
\* the command's write stands, or Update's does
RacedAppend(local, conv, x) ==
  IF conv = local THEN {Append(local, x)} ELSE {Append(local, x), conv}

\* Chat.Update, case LLMReplyMsg, followed by SetSending(false)
ChatReply(content) ==
  /\ assistantResponse' = << >>
  /\ historyBuf' =
       SetSendingBuf(IF HasSuffix(historyBuf, AssistantPrefix)
                       THEN historyBuf \o content \o NewLines
                       ELSE historyBuf \o AssistantPrefix \o content
                              \o NewLines,
                     << >>, FALSE)
  /\ sending' = FALSE

\* App.Update, case tea.KeyMsg, key ctrl+k
GenKeyModelPicker ==
  /\ LoopReady
  /\ activeView' =
       IF activeView = "chatView" THEN "modelPickerView" ELSE activeView
  /\ UNCHANGED <<selectedModel, sizeVars, conversationHistory, streamChan,
                 chatVars, msgs, producers, listeners, crashed, ghostVars,
                 boundVars>>

\* App.Update, case ui.SendPromptMsg
GenUpdateSendPromptMsg(m) ==
  /\ LoopReady
  /\ BagIn(m, msgs) /\ m.type = "SendPromptMsg"
  /\ msgs' = Take(m)
  /\ sending' = TRUE
  /\ historyBuf' = SetSendingBuf(historyBuf, assistantResponse, TRUE)
  /\ assistantResponse' = << >>
  /\ conversationHistory' = UserCommit(conversationHistory, m.text)
  /\ producers' =
       Append(producers,
              NewCommand(selectedModel, m.text, conversationHistory'))
  /\ UNCHANGED <<activeView, selectedModel, sizeVars, streamChan, listeners,
                 crashed, ghostVars, boundVars>>

\* App.Update, case ui.LLMReplyMsg
GenUpdateLLMReplyMsg(m) ==
  /\ LoopReady
  /\ BagIn(m, msgs) /\ m.type = "LLMReplyMsg"
  /\ msgs' = Take(m)
  /\ IF activeView = "chatView" THEN ChatReply(m.text)
                                ELSE UNCHANGED chatVars
  /\ UNCHANGED <<appVars, producers, listeners, crashed, ghostVars,
                 boundVars>>

\* fmt.Sprintf("Assistant Error: %s", m.Err.Error())
GenErrMsg(m) == <<"Assistant Error: ">> \o m.text

\* App.Update, case llm.ErrorMsg
GenUpdateErrorMsg(m) ==
  /\ LoopReady
  /\ BagIn(m, msgs) /\ m.type = "llm.ErrorMsg"
  /\ msgs' = Take(m)
  /\ ChatReply(GenErrMsg(m))
  /\ UNCHANGED <<appVars, producers, listeners, crashed, ghostVars,
                 boundVars>>

\* the command calls a.llmClient.Generate(ctx, model, prompt,
\* a.conversationHistory) and has its result: the content of the reply, or
\* an error, which it returns as llm.ErrorMsg
GenCall(i) ==
  /\ producers[i].pc = "call"
  /\ \E outcome \in Outcomes("ok", {"failed"}) :
       LET p == [producers[i] EXCEPT
                   !.messages = GenerateMessages(producers[i].prompt,
                                                 conversationHistory)]
       IN /\ IF outcome = "ok"
               THEN /\ SetProducer(i, [p EXCEPT !.pc = "read",
                                                !.response = Response(i)])
                    /\ UNCHANGED msgs
               ELSE /\ SetProducer(i, [p EXCEPT !.pc = "done"])
                    /\ msgs' = Put(msgs, Msg("llm.ErrorMsg", ErrGenerate))
          /\ Fault(outcome # "ok")
  /\ UNCHANGED <<appVars, chatVars, listeners, crashed, ghostVars, keyVars,
                 nLines, nBuildFaults>>

\* the command's append(a.conversationHistory, ...): the slice is read
GenRead(i) ==
  /\ producers[i].pc = "read"
  /\ SetProducer(i, [producers[i] EXCEPT !.pc = "write",
                                         !.local = conversationHistory])
  /\ UNCHANGED <<appVars, chatVars, msgs, listeners, crashed, ghostVars,
                 boundVars>>

\* a.conversationHistory = ...: the slice is written, and the command
\* returns ui.LLMReplyMsg
GenWrite(i) ==
  /\ producers[i].pc = "write"
  /\ conversationHistory' \in
       RacedAppend(producers[i].local, conversationHistory,
                   Message("assistant", producers[i].response))
  /\ msgs' = Put(msgs, Msg("LLMReplyMsg", producers[i].response))
  /\ SetProducer(i, [producers[i] EXCEPT !.pc = "done"])
  /\ UNCHANGED <<activeView, selectedModel, sizeVars, streamChan, chatVars,
                 listeners, crashed, ghostVars, boundVars>>

\* the event loop hands one waiting message to Update
GenUpdateStep ==
  \E m \in BagToSet(msgs) :
    \/ GenUpdateSendPromptMsg(m)
    \/ GenUpdateLLMReplyMsg(m)
    \/ GenUpdateErrorMsg(m)
    \/ UpdateModelSelectedMsg(m)

GenNext ==
  \/ \E text \in Inputs(nSends + 1), item \in Models : KeyEnter(text, item)
  \/ GenKeyModelPicker
  \/ \E size \in Sizes : WindowSize(size)
  \/ \E m \in BagToSet(msgs) : GenUpdateSendPromptMsg(m)
  \/ \E m \in BagToSet(msgs) : GenUpdateLLMReplyMsg(m)
  \/ \E m \in BagToSet(msgs) : GenUpdateErrorMsg(m)
  \/ \E m \in BagToSet(msgs) : UpdateModelSelectedMsg(m)
  \/ \E i \in 1..Len(producers) : GenCall(i)
  \/ \E i \in 1..Len(producers) : GenRead(i)
  \/ \E i \in 1..Len(producers) : GenWrite(i)

GenSpec == Init /\ [][GenNext]_vars

\* C36: single writer. Conversation changes only in a step of Update, and a
\* step never takes a Message from it.
SingleWriter ==
  [][/\ IsPrefix(conversationHistory, conversationHistory')
     /\ conversationHistory' # conversationHistory => GenUpdateStep
    ]_vars

\* every command has returned and Update has handled all there was
Quiescent ==
  /\ msgs = EmptyBag
  /\ \A i \in 1..Len(producers) : producers[i].pc = "done"

\* the reply of the i-th call is in the rendered history
Rendered(i) ==
  \E j \in 1..Len(historyBuf) :
    <<historyBuf[j]>> \in {Response(i), ErrGenerate}

\* C37: completion. Once every Generate call has completed and its result
\* has been handled, each result is in the chat view's rendered history and
\* the chat view is not sending.
GenCompletion ==
  Quiescent =>
    /\ ~sending
    /\ \A i \in 1..Len(producers) : Rendered(i)

\* C38: request content. The messages of a Generate call are the
\* conversation as it was when the prompt had been appended: the prompt is
\* there once, as the last Message.
RequestContent ==
  \A i \in 1..Len(producers) :
    LET p == producers[i]
    IN p.pc # "call" =>
         /\ p.messages = p.sent
         /\ {j \in 1..Len(p.messages) :
               p.messages[j] = Message("user", p.prompt)} = {Len(p.messages)}

====
